---- MODULE Spec2Model ----
(***************************************************************************)
(* pytest-k8s: the kind cluster lifecycle manager                          *)
(* (src/pytest_kubernetes/kind/cluster.py, class KindCluster) and the      *)
(* streaming subprocess runner (src/pytest_k8s/kind/streaming.py).         *)
(*                                                                         *)
(* Spec       : one KindCluster object driven by a single caller; every    *)
(*              public method is one atomic action, the outcomes of the    *)
(*              external commands it runs are chosen nondeterministically. *)
(* ListingSpec: exists() applied to every short output of the listing       *)
(*              command.                                                   *)
(* StreamSpec : one StreamingSubprocess.run call: the controlling thread,  *)
(*              the two reader threads and the child process interleave.   *)
(* HandlerSpec: a caller of LoggingStreamHandler.wait_for_completion with  *)
(*              a timeout of its choice, the threads scheduled fairly.     *)
(***************************************************************************)
EXTENDS Integers, Sequences, FiniteSets, TLC

VARIABLES
    self,      \* the KindCluster object's fields
    files,     \* the files on disk this object may own
    cluster,   \* TRUE iff the kind tool knows a cluster of this name
    call,      \* the method call the caller has just made: outcome and events
    scope      \* TRUE iff the caller is inside "with cluster:"

clusterVars == <<self, files, cluster, call, scope>>

VARIABLES
    opts,      \* the loggers the StreamingSubprocess was built with
    pc,        \* where the controlling thread is in run()
    ret,       \* where the controlling thread continues after stop_streaming()
    exc,       \* the exception run() is raising, or None
    result,    \* the CompletedProcess run() built, or None
    child,     \* the child process
    pipe,      \* per stream, the lines written by the child and not yet read
    reader,    \* per stream, the StreamReader and its thread
    sink,      \* per stream, the entries forwarded to the logging sink
    events     \* what the controlling thread has done so far

streamVars == <<opts, pc, ret, exc, result, child, pipe, reader, sink, events>>

vars == <<self, files, cluster, call, scope, opts, pc, ret, exc, result, child, pipe,
          reader, sink, events>>

----------------------------------------------------------------------------
(* Bounds *)

MaxTimeout == 3

\* The number of lines the child writes at most.
MaxLines == 2

\* The length of the listing command's output, in characters, at most.
MaxListing == 5

----------------------------------------------------------------------------
(* Values *)

None == "None"

KubeconfigFile == "kubeconfig.yaml"
TempConfigFile == "kind-config.yaml"
ExplicitConfigFile == "explicit.yaml"

SleepInterval == 2
ProbeTimeout == 10

\* is_ready(): self.wait_for_ready(timeout=10)
IsReadyTimeout == 10

\* How one external command can end: exit 0, exit non-zero, killed on
\* timeout, executable not found.
CmdOutcomes == {"ok", "nonzero", "timeout", "notfound"}

Timeouts == 0..MaxTimeout

\* The constructor's configuration arguments: <<config_path, inline>>, inline
\* meaning that image or extra_port_mappings is set.
Configs == {None, ExplicitConfigFile} \X BOOLEAN

\* An exception: its class, its message and, for a wrapping exception, the
\* failure it was raised for.
NoCause == [cls |-> "None", msg |-> ""]

NoError == [cls |-> "None", msg |-> "", cause |-> NoCause]

Error(cls, msg) == [cls |-> cls, msg |-> msg, cause |-> NoCause]

Wrap(cls, msg, e) == [cls |-> cls, msg |-> msg, cause |-> [cls |-> e.cls, msg |-> e.msg]]

Raised(r) == r.err # NoError

\* The exception subprocess.run raises for a failed command.
CommandError(o) ==
    CASE o = "nonzero"  -> Error("CalledProcessError", "")
      [] o = "timeout"  -> Error("TimeoutExpired", "")
      [] o = "notfound" -> Error("FileNotFoundError", "")

\* The spec's error taxonomy, read off the exception class and message.
ErrorKind(e) ==
    CASE e = NoError -> "None"
      [] e.cls = "KindClusterError" /\ e.msg \in {"kind command not available",
                                                   "Docker not available or not running"}
           -> "PrerequisiteMissing"
      [] e.cls = "KindClusterCreationError" /\ e.msg = "already exists"
           -> "AlreadyExists"
      [] e.cls = "KindClusterCreationError" /\ e.msg # "already exists"
           -> "CreationFailed"
      [] e.cls = "KindClusterDeletionError" -> "DeletionFailed"
      [] e.cls = "KindClusterError" /\ e.msg = "not ready" -> "NotReady"
      [] e.cls = "KindClusterError"
           /\ e.msg = "Cluster not created or kubeconfig not available"
           -> "CredentialsMissing"
      [] e.cls = "KindClusterError" /\ e.msg = "Timeout getting cluster nodes"
           -> "NodeQueryTimedOut"
      [] e.cls = "KindClusterError" /\ e.msg \in {"Error getting nodes",
                                                   "Failed to get nodes"}
           -> "NodeQueryFailed"
      [] OTHER -> "Raw"

Count(s, x) == Cardinality({i \in 1..Len(s) : s[i] = x})

\* The machine a method runs on: the object, the disk, the kind tool and the
\* events of the running call.
Machine == [self |-> self, files |-> files, cluster |-> cluster, trace |-> <<>>]

Log(m, ev) == [m EXCEPT !.trace = Append(@, ev)]

----------------------------------------------------------------------------
(* KindCluster._run_command *)

\* TRUE iff _run_command raises for outcome o.
RunCommandRaises(o, check) ==
    \/ o \in {"timeout", "notfound"}
    \/ check /\ o = "nonzero"

----------------------------------------------------------------------------
(* KindCluster._check_kind_available / _check_docker_available *)

\* Mutant: a missing executable is not noticed.
CheckAvailableMissesNotFound(o) ==
    CASE o \in {"ok", "notfound"} -> [value |-> TRUE, err |-> NoError]
      [] o = "nonzero"            -> [value |-> FALSE, err |-> NoError]
      [] o = "timeout"            -> [value |-> FALSE, err |-> CommandError(o)]

\* Only CalledProcessError and FileNotFoundError are caught; a timeout of the
\* version command propagates.
CheckAvailable(o) ==
    CASE o = "ok"                     -> [value |-> TRUE, err |-> NoError]
      [] o \in {"nonzero", "notfound"} -> [value |-> FALSE, err |-> NoError]
      [] o = "timeout"                -> [value |-> FALSE, err |-> CommandError(o)]

----------------------------------------------------------------------------
(* KindCluster.exists *)

\* Text is a sequence of one-character strings.
Alphabet == {"a", "b", " ", "\n"}

\* self.name
ClusterName == <<"a", "b">>

\* The characters str.strip() removes.
IsSpace(c) == c \in {" ", "\n"}

RECURSIVE LStrip(_)
LStrip(s) == IF s # <<>> /\ IsSpace(Head(s)) THEN LStrip(Tail(s)) ELSE s

RECURSIVE RStrip(_)
RStrip(s) ==
    IF s # <<>> /\ IsSpace(s[Len(s)]) THEN RStrip(SubSeq(s, 1, Len(s) - 1)) ELSE s

\* str.strip()
Strip(s) == RStrip(LStrip(s))

\* str.split('\n'): the pieces between newlines; the empty string gives one
\* empty piece.
RECURSIVE Split(_)
Split(s) ==
    IF \A i \in DOMAIN s : s[i] # "\n"
    THEN <<s>>
    ELSE LET i == CHOOSE k \in DOMAIN s :
                      s[k] = "\n" /\ \A j \in 1..(k - 1) : s[j] # "\n"
         IN  <<SubSeq(s, 1, i - 1)>> \o Split(SubSeq(s, i + 1, Len(s)))

\* [cluster.strip() for cluster in stdout.strip().split('\n') if cluster.strip()]
ListedClusters(stdout) ==
    LET pieces == Split(Strip(stdout))
        NonBlank(piece) == Strip(piece) # <<>>
        kept == SelectSeq(pieces, NonBlank)
    IN  [i \in DOMAIN kept |-> Strip(kept[i])]

\* Mutant: a listed name that contains the name counts as a match.
InListingBySubstring(name, stdout) ==
    \E i \in DOMAIN ListedClusters(stdout) :
        LET l == ListedClusters(stdout)[i] IN
        \E a \in 1..Len(l) : \E b \in a..Len(l) : SubSeq(l, a, b) = name

\* self.name in clusters
InListing(name, stdout) ==
    \E i \in DOMAIN ListedClusters(stdout) : ListedClusters(stdout)[i] = name

\* What "kind get clusters" prints on stdout when it exits 0.
KindGetClusters(c) == IF c THEN ClusterName \o <<"\n">> ELSE <<>>

\* The try body of exists(): the listing is run with check=False, so a
\* non-zero exit is a result; a timeout or a missing executable raises.
\* listed is the value of "self.name in clusters" for the text printed.
ExistsTry(o, listed) ==
    IF RunCommandRaises(o, FALSE)
    THEN [value |-> FALSE, err |-> CommandError(o)]
    ELSE IF o = "ok"
    THEN [value |-> listed, err |-> NoError]
    ELSE [value |-> FALSE, err |-> NoError]

\* Mutant: exists() has no "except Exception".
ExistsOnPropagates(m, o, listed) ==
    LET t == ExistsTry(o, listed) IN
    [m |-> Log(m, "kind get clusters"), value |-> t.value, err |-> t.err]

\* exists() when the listing ends as o and, on exit 0, prints a text that
\* names this cluster iff listed: "except Exception: return False".
ExistsOn(m, o, listed) ==
    LET t == ExistsTry(o, listed) IN
    [m |-> Log(m, "kind get clusters"),
     value |-> IF Raised(t) THEN FALSE ELSE t.value,
     err |-> NoError]

\* Mutant: the listing is never matched against the name.
ExistsMissesCluster(m, o) ==
    [m |-> Log(m, "kind get clusters"), value |-> FALSE, err |-> NoError]

\* Mutant: a failed listing counts as "exists".
ExistsOnFailure(m, o) ==
    [m |-> Log(m, "kind get clusters"),
     value |-> IF o = "ok" THEN m.cluster ELSE TRUE, err |-> NoError]

\* exists() against the kind tool, whose listing names this cluster iff the
\* tool knows it.
Exists(m, o) == ExistsOn(m, o, m.cluster)

----------------------------------------------------------------------------
(* KindCluster.delete *)

\* The finally clause of delete().
DeleteFinally(m) ==
    IF m.self.kubeconfig_path # None /\ m.self.kubeconfig_path \in m.files
    THEN [Log(m, "unlink kubeconfig") EXCEPT !.files = @ \ {m.self.kubeconfig_path}]
    ELSE m

\* Mutant: a successful deletion leaves the Verified flag set.
DeleteCommandKeepsVerified(m, o) ==
    LET m1 == Log(m, "kind delete cluster") IN
    CASE o = "ok" ->
           [m |-> [m1 EXCEPT !.self.created = FALSE, !.cluster = FALSE],
            err |-> NoError]
      [] o = "nonzero" ->
           [m |-> m1, err |-> Error("KindClusterDeletionError", "Failed to delete cluster")]
      [] OTHER ->
           [m |-> m1, err |-> CommandError(o)]

\* Mutant: the flags are cleared before the deletion command is run.
DeleteCommandClearsFirst(m, o) ==
    LET m1 == [Log(m, "kind delete cluster") EXCEPT !.self.created = FALSE,
                                                    !.self.verified = FALSE]
    IN
    CASE o = "ok" ->
           [m |-> [m1 EXCEPT !.cluster = FALSE], err |-> NoError]
      [] o = "nonzero" ->
           [m |-> m1, err |-> Error("KindClusterDeletionError", "Failed to delete cluster")]
      [] OTHER ->
           [m |-> m1, err |-> CommandError(o)]

\* The try body of delete(): the deletion command and its outcome.
DeleteCommand(m, o) ==
    LET m1 == Log(m, "kind delete cluster") IN
    CASE o = "ok" ->
           [m |-> [m1 EXCEPT !.self.created = FALSE,
                             !.self.verified = FALSE,
                             !.cluster = FALSE],
            err |-> NoError]
      [] o = "nonzero" ->
           [m |-> m1, err |-> Error("KindClusterDeletionError", "Failed to delete cluster")]
      [] OTHER ->
           [m |-> m1, err |-> CommandError(o)]

\* delete() past the keep_cluster guard: existence check, deletion command,
\* kubeconfig cleanup.
DeleteChecked(m, o) ==
    LET ex == Exists(m, o.list) IN
    IF Raised(ex) THEN [m |-> ex.m, err |-> ex.err]
    ELSE IF ~ex.value
    THEN [m |-> ex.m, err |-> NoError]
    ELSE LET r == DeleteCommand(ex.m, o.del) IN
         [m |-> DeleteFinally(r.m), err |-> r.err]

\* Mutant: keep_cluster is not honoured.
DeleteCallIgnoresKeep(m, o) == DeleteChecked(m, o)

\* delete(): o.list is the outcome of the listing, o.del of the deletion.
DeleteCall(m, o) ==
    IF m.self.keep_cluster
    THEN [m |-> m, err |-> NoError]
    ELSE DeleteChecked(m, o)

----------------------------------------------------------------------------
(* KindCluster.wait_for_ready *)

\* An optional timeout argument: <<>> for None, <<t>> for the number t.
NoArg == <<>>

TimeoutArgs == {NoArg} \cup {<<t>> : t \in Timeouts}

\* timeout = timeout or self.timeout
EffectiveTimeout(m, t) == IF t = NoArg \/ t[1] = 0 THEN m.self.timeout ELSE t[1]

\* The number of loop iterations a deadline of t allows at most.
ProbeBudget(t) == IF t <= 0 THEN 0 ELSE (t + SleepInterval - 1) \div SleepInterval

ProbeDuration(o) == IF o = "timeout" THEN ProbeTimeout ELSE 0

RECURSIVE WaitLoop(_, _, _, _, _)
WaitLoop(m, t, probes, elapsed, i) ==
    IF ~(elapsed < t)
    THEN [m |-> m, err |-> Error("KindClusterError", "not ready")]
    ELSE IF m.self.kubeconfig_path # None
    THEN LET o  == probes[i]
             m1 == Log(m, "kubectl get nodes")
         IN  IF o = "ok"
             THEN [m |-> [m1 EXCEPT !.self.verified = TRUE], err |-> NoError]
             ELSE WaitLoop(Log(m1, "sleep"), t, probes,
                           elapsed + ProbeDuration(o) + SleepInterval, i + 1)
    ELSE WaitLoop(Log(m, "sleep"), t, probes, elapsed + SleepInterval, i)

\* Mutant: a successful probe does not set the Verified flag.
WaitForReadyCallNoVerify(m, t, probes) ==
    LET r == WaitLoop(m, EffectiveTimeout(m, t), probes, 0, 1) IN
    [m |-> [r.m EXCEPT !.self.verified = m.self.verified], err |-> r.err]

\* Mutant: running out of time is reported as success.
WaitForReadyCallNeverFails(m, t, probes) ==
    LET r == WaitLoop(m, EffectiveTimeout(m, t), probes, 0, 1) IN
    [m |-> [r.m EXCEPT !.self.verified = TRUE], err |-> NoError]

WaitForReadyCall(m, t, probes) ==
    WaitLoop(m, EffectiveTimeout(m, t), probes, 0, 1)

----------------------------------------------------------------------------
(* KindCluster.is_ready *)

\* KindClusterError and its subclasses (errors.py).
IsKindClusterError(e) ==
    e.cls \in {"KindClusterError", "KindClusterCreationError",
               "KindClusterDeletionError", "KindClusterNotFoundError"}

\* Mutant: is_ready() has no "except KindClusterError".
IsReadyCallPropagates(m, probes) ==
    LET r == WaitForReadyCall(m, <<IsReadyTimeout>>, probes) IN
    [m |-> r.m, value |-> ~Raised(r), err |-> r.err]

\* try: self.wait_for_ready(timeout=10); return True
\* except KindClusterError: return False
IsReadyCall(m, probes) ==
    LET r == WaitForReadyCall(m, <<IsReadyTimeout>>, probes) IN
    [m |-> r.m, value |-> ~Raised(r),
     err |-> IF IsKindClusterError(r.err) THEN NoError ELSE r.err]

----------------------------------------------------------------------------
(* KindCluster.get_nodes *)

\* The node names get_nodes() returns for the output of a successful listing.
NodeNames == "nodes"

\* The try body of get_nodes(): the command is run without check, a non-zero
\* exit raises KindClusterError inside the try.
GetNodesTry(o) ==
    CASE o = "ok"      -> NoError
      [] o = "nonzero" -> Error("KindClusterError", "Failed to get nodes")
      [] OTHER         -> CommandError(o)

\* Mutant: the credentials guard is missing.
GetNodesCallNoGuard(m, o) ==
    LET m1 == Log(m, "kubectl get nodes -o name")
        e  == GetNodesTry(o)
    IN  IF ~Raised([err |-> e])
        THEN [m |-> m1, value |-> NodeNames, err |-> NoError]
        ELSE IF e.cls = "TimeoutExpired"
        THEN [m |-> m1, err |-> Error("KindClusterError", "Timeout getting cluster nodes")]
        ELSE [m |-> m1, err |-> Wrap("KindClusterError", "Error getting nodes", e)]

\* Mutant: only a timeout of the listing is converted.
GetNodesCallTimeoutOnly(m, o) ==
    IF m.self.kubeconfig_path = None
    THEN [m |-> m,
          err |-> Error("KindClusterError",
                        "Cluster not created or kubeconfig not available")]
    ELSE
    LET m1 == Log(m, "kubectl get nodes -o name")
        e  == GetNodesTry(o)
    IN  IF ~Raised([err |-> e])
        THEN [m |-> m1, value |-> NodeNames, err |-> NoError]
        ELSE IF e.cls = "TimeoutExpired"
        THEN [m |-> m1, err |-> Error("KindClusterError", "Timeout getting cluster nodes")]
        ELSE [m |-> m1, err |-> e]

\* get_nodes(): the guard, then the listing; "except subprocess.TimeoutExpired"
\* and "except Exception as e" turn every failure into KindClusterError.
GetNodesCall(m, o) ==
    IF m.self.kubeconfig_path = None
    THEN [m |-> m,
          err |-> Error("KindClusterError",
                        "Cluster not created or kubeconfig not available")]
    ELSE
    LET m1 == Log(m, "kubectl get nodes -o name")
        e  == GetNodesTry(o)
    IN  IF ~Raised([err |-> e])
        THEN [m |-> m1, value |-> NodeNames, err |-> NoError]
        ELSE IF e.cls = "TimeoutExpired"
        THEN [m |-> m1, err |-> Error("KindClusterError", "Timeout getting cluster nodes")]
        ELSE [m |-> m1, err |-> Wrap("KindClusterError", "Error getting nodes", e)]

----------------------------------------------------------------------------
(* KindCluster._create_cluster_config *)

\* The path create() passes as --config, and the machine after a temporary
\* file has been written for inline settings.
CreateClusterConfig(m) ==
    IF m.self.config_path # None
    THEN [m |-> m, path |-> m.self.config_path]
    ELSE IF m.self.inline
    THEN [m |-> [Log(m, "write temp config") EXCEPT !.files = @ \cup {TempConfigFile}],
          path |-> TempConfigFile]
    ELSE [m |-> m, path |-> None]

----------------------------------------------------------------------------
(* KindCluster._setup_kubeconfig *)

\* The temporary file is created and its path stored before the export runs;
\* only a non-zero exit of the export is turned into KindClusterCreationError.
SetupKubeconfig(m, o) ==
    LET m1 == [Log(m, "create kubeconfig file")
                  EXCEPT !.self.kubeconfig_path = KubeconfigFile,
                         !.files = @ \cup {KubeconfigFile}]
        m2 == Log(m1, "kind export kubeconfig")
    IN  CASE o = "ok"      -> [m |-> m2, err |-> NoError]
          [] o = "nonzero" -> [m |-> m2,
                               err |-> Wrap("KindClusterCreationError",
                                            "Failed to export kubeconfig",
                                            CommandError(o))]
          [] OTHER         -> [m |-> m2, err |-> CommandError(o)]

----------------------------------------------------------------------------
(* KindCluster.create *)

\* The try body of create(): creation command, credential export, readiness
\* wait.  err is the exception that leaves the body, if any.
CreateTry(m, o) ==
    LET m1 == Log(m, "kind create cluster") IN
    IF RunCommandRaises(o.create, TRUE)
    THEN [m |-> m1, err |-> CommandError(o.create)]
    ELSE LET m2 == [m1 EXCEPT !.self.created = TRUE, !.cluster = TRUE]
             k  == SetupKubeconfig(m2, o.export)
         IN  IF Raised(k)
             THEN k
             ELSE WaitForReadyCall(k.m, NoArg, o.probes)

\* Mutant: an error of the rollback delete() is not swallowed.
RollbackPropagates(m, o) ==
    DeleteCall(Log(m, "delete()"), o)

\* The rollback of a failed create(): delete() is called and whatever it
\* raises is ignored ("except Exception: pass").
Rollback(m, o) ==
    LET d == DeleteCall(Log(m, "delete()"), o) IN
    [m |-> IF Raised(d) THEN Log(d.m, "cleanup error ignored") ELSE d.m,
     err |-> NoError]

\* The except clauses of create(): roll back, then raise
\* KindClusterCreationError for the exception e that left the try body.
CreateExcept(m, e, o) ==
    LET rb == Rollback(m, o) IN
    IF Raised(rb) THEN rb
    ELSE IF e.cls = "CalledProcessError"
    THEN [m |-> rb.m,
          err |-> Wrap("KindClusterCreationError", "Failed to create cluster", e)]
    ELSE [m |-> rb.m,
          err |-> Wrap("KindClusterCreationError", "Cluster creation failed", e)]

\* Mutant: the finally clause of create() is missing.
CreateFinallySkipped(m, config_path) == m

\* The finally clause of create().
CreateFinally(m, config_path) ==
    IF config_path # None /\ config_path # m.self.config_path
    THEN [Log(m, "unlink temp config") EXCEPT !.files = @ \ {config_path}]
    ELSE m

\* create() from the existence check onward.
CreateCluster(m, o) ==
    LET c == CreateClusterConfig(m)
        t == CreateTry(c.m, o)
        r == IF Raised(t) THEN CreateExcept(t.m, t.err, o.rollback) ELSE t
    IN  [m |-> CreateFinally(r.m, c.path), err |-> r.err]

\* create() past the already-created guard: prerequisite checks, existence
\* check, creation.
CreateChecked(m, o) ==
    LET m1 == Log(m, "kind version")
        k  == CheckAvailable(o.kind)
    IN
    IF Raised(k) THEN [m |-> m1, err |-> k.err]
    ELSE IF ~k.value
    THEN [m |-> m1, err |-> Error("KindClusterError", "kind command not available")]
    ELSE
    LET m2 == Log(m1, "docker version")
        d  == CheckAvailable(o.docker)
    IN
    IF Raised(d) THEN [m |-> m2, err |-> d.err]
    ELSE IF ~d.value
    THEN [m |-> m2, err |-> Error("KindClusterError", "Docker not available or not running")]
    ELSE
    LET ex == Exists(m2, o.list) IN
    IF Raised(ex) THEN [m |-> ex.m, err |-> ex.err]
    ELSE IF ex.value
    THEN [m |-> ex.m, err |-> Error("KindClusterCreationError", "already exists")]
    ELSE CreateCluster(ex.m, o)

\* Mutant: the already-created guard is missing.
CreateCallNoGuard(m, o) == CreateChecked(m, o)

\* Mutant: every failure of create() is followed by the rollback.
CreateCallAlwaysRollsBack(m, o) ==
    IF m.self.created
    THEN [m |-> m, err |-> NoError]
    ELSE LET r == CreateChecked(m, o) IN
         IF Raised(r) /\ Count(r.m.trace, "delete()") = 0
         THEN [m |-> Rollback(r.m, o.rollback).m, err |-> r.err]
         ELSE r

\* create(): o holds the outcome of every external command the call may run.
CreateCall(m, o) ==
    IF m.self.created
    THEN [m |-> m, err |-> NoError]
    ELSE CreateChecked(m, o)

----------------------------------------------------------------------------
(* KindCluster.__enter__ / __exit__ *)

\* __enter__: self.create(); return self
EnterCall(m, o) == CreateCall(Log(m, "create()"), o)

\* Mutant: __exit__ lets an error of delete() out.
ExitCallPropagates(m, o) == DeleteCall(Log(m, "delete()"), o)

\* __exit__: try: self.delete() except Exception as e: logger.error(...);
\* it returns None, so an exception of the body is not suppressed.
ExitCall(m, o) ==
    LET d == DeleteCall(Log(m, "delete()"), o) IN
    [m |-> IF Raised(d) THEN Log(d.m, "cleanup error logged") ELSE d.m,
     err |-> NoError]

\* The exceptions the body of the with statement may raise.
BodyOutcomes == {NoError, Error("ValueError", "body")}

\* Leaving "with cluster:" whose body ended as body: __exit__ runs; what it
\* raises replaces the body's exception, otherwise the body's propagates.
LeaveScope(m, body, o) ==
    LET x == ExitCall(m, o) IN
    [m |-> x.m, err |-> IF Raised(x) THEN x.err ELSE body]

----------------------------------------------------------------------------
(* The caller *)

\* A call's record: the method, its argument, the outcomes of the external
\* commands it met, what it raised, the state it started from and the events
\* it produced.
Finish(op, arg, o, r) ==
    /\ self' = r.m.self
    /\ files' = r.m.files
    /\ cluster' = r.m.cluster
    /\ call' = [op |-> op, arg |-> arg, inputs |-> o, err |-> r.err,
                value |-> IF "value" \in DOMAIN r THEN <<r.value>> ELSE <<>>,
                pre |-> [self |-> self, files |-> files, cluster |-> cluster],
                trace |-> r.m.trace]
    /\ UNCHANGED streamVars

\* No call is pending: the caller is free to make the next one.
NoCall ==
    [op |-> "none", arg |-> NoArg, inputs |-> <<>>, err |-> NoError,
     value |-> <<>>,
     pre |-> [self |-> self, files |-> files, cluster |-> cluster],
     trace |-> <<>>]

Idle == call.op = "none"

\* Outcomes are drawn only for the commands the call can reach.
Pick(needed, S) == IF needed THEN S ELSE {"ok"}

\* The number of probes wait_for_ready runs under a deadline of t when the
\* probes end as p.
ProbesRead(p, t) ==
    LET m == [Machine EXCEPT !.self.kubeconfig_path = KubeconfigFile]
    IN  Count(WaitLoop(m, t, p, 0, 1).m.trace, "kubectl get nodes")

\* The outcomes of the probes a wait under a deadline of t can run; an
\* outcome is drawn only for a probe that is run.
Probes(needed, t) ==
    IF needed
    THEN {p \in [1..ProbeBudget(t) -> CmdOutcomes] :
             \A j \in DOMAIN p : j > ProbesRead(p, t) => p[j] = "ok"}
    ELSE {[i \in 1..ProbeBudget(t) |-> "ok"]}

\* The timeouts a caller may pass to the constructor: __init__ stores the
\* argument as it is, so a negative one is among them.
CtorTimeouts == {-1} \cup Timeouts

\* KindCluster(config_path, timeout, keep_cluster, image / extra_port_mappings):
\* the fields are assigned, nothing is validated and nothing is raised.
NewCluster(k, t, c) ==
    [self |-> [keep_cluster |-> k, timeout |-> t,
               config_path |-> c[1], inline |-> c[2],
               created |-> FALSE, verified |-> FALSE, kubeconfig_path |-> None],
     err |-> NoError]

ClusterInit ==
    /\ \E k \in BOOLEAN, t \in CtorTimeouts, c \in Configs :
          /\ ~Raised(NewCluster(k, t, c))
          /\ self = NewCluster(k, t, c).self
          /\ files = IF c[1] = None THEN {} ELSE {c[1]}
    /\ cluster \in BOOLEAN
    /\ call = NoCall
    /\ scope = FALSE

\* create(), called directly or by __enter__.
CallCreate(op) ==
    /\ Idle
    /\ \E kind \in Pick(~self.created, CmdOutcomes) :
       \E docker \in Pick(~self.created /\ kind = "ok", CmdOutcomes) :
       \E list \in Pick(~self.created /\ kind = "ok" /\ docker = "ok", CmdOutcomes) :
       LET reach == /\ ~self.created /\ kind = "ok" /\ docker = "ok"
                    /\ ~(list = "ok" /\ cluster)
       IN
       \E create \in Pick(reach, CmdOutcomes) :
       \E export \in Pick(reach /\ create = "ok", CmdOutcomes) :
       \E probes \in Probes(reach /\ create = "ok" /\ export = "ok", self.timeout) :
       LET failed == reach /\ Raised(CreateTry(Machine, [create |-> create,
                                                          export |-> export,
                                                          probes |-> probes]))
       IN
       \E rlist \in Pick(failed /\ ~self.keep_cluster, CmdOutcomes) :
       \E rdel \in Pick(failed /\ ~self.keep_cluster /\ rlist = "ok", CmdOutcomes) :
           LET o == [kind |-> kind, docker |-> docker, list |-> list,
                     create |-> create, export |-> export, probes |-> probes,
                     rollback |-> [list |-> rlist, del |-> rdel]]
               r == IF op = "create" THEN CreateCall(Machine, o)
                    ELSE EnterCall(Machine, o)
           IN  /\ Finish(op, NoArg, o, r)
               /\ scope' = IF op = "create" THEN scope ELSE ~Raised(r)

Create ==
    /\ Idle
    /\ CallCreate("create")

\* "with cluster:" is entered; the body runs iff __enter__ returns.
Enter ==
    /\ ~scope
    /\ CallCreate("__enter__")

\* "with cluster:" is left, the body having returned or raised.
Exit ==
    /\ Idle
    /\ scope
    /\ \E body \in BodyOutcomes :
       \E list \in Pick(~self.keep_cluster, CmdOutcomes) :
       \E del \in Pick(~self.keep_cluster /\ list = "ok" /\ cluster, CmdOutcomes) :
           LET o == [list |-> list, del |-> del, body |-> body]
           IN  /\ Finish("__exit__", NoArg, o, LeaveScope(Machine, body, o))
               /\ scope' = FALSE

Delete ==
    /\ Idle
    /\ \E list \in Pick(~self.keep_cluster, CmdOutcomes) :
       \E del \in Pick(~self.keep_cluster /\ list = "ok" /\ cluster, CmdOutcomes) :
           LET o == [list |-> list, del |-> del]
           IN  /\ Finish("delete", NoArg, o, DeleteCall(Machine, o))
               /\ UNCHANGED scope

WaitForReady ==
    /\ Idle
    /\ \E t \in TimeoutArgs :
       \E probes \in Probes(self.kubeconfig_path # None, EffectiveTimeout(Machine, t)) :
           /\ Finish("wait_for_ready", t, [probes |-> probes],
                     WaitForReadyCall(Machine, t, probes))
           /\ UNCHANGED scope

\* The caller has seen the call's result (return value or exception) and
\* goes on; the object stays as the call left it.
Return ==
    /\ ~Idle
    /\ call' = NoCall
    /\ UNCHANGED <<self, files, cluster, scope>>
    /\ UNCHANGED streamVars

\* exists()
ExistsCheck ==
    /\ Idle
    /\ \E list \in CmdOutcomes :
           /\ Finish("exists", NoArg,
                     [list |-> list, stdout |-> KindGetClusters(cluster)],
                     Exists(Machine, list))
           /\ UNCHANGED scope

\* is_ready()
IsReady ==
    /\ Idle
    /\ \E probes \in Probes(self.kubeconfig_path # None, IsReadyTimeout) :
           /\ Finish("is_ready", NoArg, [probes |-> probes],
                     IsReadyCall(Machine, probes))
           /\ UNCHANGED scope

\* get_nodes()
GetNodes ==
    /\ Idle
    /\ \E o \in Pick(self.kubeconfig_path # None, CmdOutcomes) :
           /\ Finish("get_nodes", NoArg, [nodes |-> o], GetNodesCall(Machine, o))
           /\ UNCHANGED scope

\* Every text the listing command can print, up to the bound.
Listings == UNION {[1..n -> Alphabet] : n \in 0..MaxListing}

\* exists() while the listing command ends as list and prints stdout.
ExistsListing ==
    /\ Idle
    /\ \E list \in CmdOutcomes, stdout \in Listings :
           /\ Finish("exists", NoArg, [list |-> list, stdout |-> stdout],
                     ExistsOn(Machine, list, InListing(ClusterName, stdout)))
           /\ UNCHANGED scope

Next ==
    \/ Create \/ Delete \/ WaitForReady \/ ExistsCheck \/ IsReady \/ GetNodes
    \/ Enter \/ Exit \/ Return

----------------------------------------------------------------------------
(* StreamingSubprocess.run and its collaborators (streaming.py) *)

Streams == <<"stdout", "stderr">>

StreamSet == {Streams[i] : i \in DOMAIN Streams}

\* A stream's logger: not supplied, supplied and enabled for its level,
\* supplied but with the level disabled.
LoggerKinds == {"none", "on", "off"}

\* run() waits for the readers with wait_for_completion(timeout=5.0).
DrainTimeout == 5

\* The timeouts a caller may give wait_for_completion: None, zero, a positive
\* number.
DrainTimeouts == {<<>>, <<0>>, <<DrainTimeout>>}

\* The k-th line the child writes, as text: a line with a blank before its
\* newline, a line of white space only, a plain line.
LineAt(k) ==
    CASE k % 3 = 1 -> <<"a", " ", "\n">>
      [] k % 3 = 2 -> <<" ", "\n">>
      [] OTHER     -> <<"b", "\n">>

\* not line.strip()
Blank(line) == Strip(line) = <<>>

\* "".join(lines)
RECURSIVE Join(_)
Join(lines) == IF lines = <<>> THEN <<>> ELSE Head(lines) \o Join(Tail(lines))

\* The stream name of the logger a stream is given (KindStdoutLogger,
\* KindStderrLogger), as the format template shows it.
Tag(s) == IF s = "stdout" THEN "STDOUT" ELSE "STDERR"

\* f"Error reading stream: {e}"
ErrorLine == <<"Error reading stream">>

\* The StreamReader of a stream without one.
NoReader == [pc |-> "off", running |-> FALSE, line |-> None, lines |-> <<>>,
             ended |-> "no"]

HasReader(s) == reader[s].pc # "off"

\* thread.is_alive()
ThreadAlive(s) == reader[s].pc \notin {"off", "dead"}

Event(e) == events' = Append(events, e)

\* Mutant: the level is not consulted.
IsEnabledWhateverLevel(s) == opts.logger[s] # "none"

\* KindStreamLogger.is_enabled
IsEnabled(s) == opts.logger[s] = "on"

\* Mutant: a blank line is forwarded like any other.
LogLineKeepsBlank(s, line) ==
    IF IsEnabled(s)
    THEN sink' = [sink EXCEPT ![s] = Append(@, [stream |-> Tag(s),
                                                message |-> RStrip(line)])]
    ELSE UNCHANGED sink

\* KindStreamLogger.log_line: blank lines are dropped, the others are
\* forwarded, formatted with the stream name and line.rstrip(), when the
\* level is enabled.
LogLine(s, line) ==
    IF ~Blank(line) /\ IsEnabled(s)
    THEN sink' = [sink EXCEPT ![s] = Append(@, [stream |-> Tag(s),
                                                message |-> RStrip(line)])]
    ELSE UNCHANGED sink

----------------------------------------------------------------------------
(* StreamReader._read_stream, one thread per stream *)

\* The thread leaves the loop: finally: self.running = False, and it ends.
ReaderEnds(s, how) ==
    [reader EXCEPT ![s].pc = "dead", ![s].running = FALSE, ![s].line = None,
                   ![s].ended = how]

\* while self.running: the flag is read; cleared, the thread ends.
ReaderCheck(s) ==
    /\ reader[s].pc = "check"
    /\ reader' = IF reader[s].running
                 THEN [reader EXCEPT ![s].pc = "read"]
                 ELSE ReaderEnds(s, "stopped")
    /\ UNCHANGED <<clusterVars, opts, pc, ret, exc, result, child, pipe, sink, events>>

\* line = self.stream.readline(): blocks until a line is there or the stream
\* is at its end (the child has exited and the pipe is empty); at the end
\* the loop is left.
ReaderRead(s) ==
    /\ reader[s].pc = "read"
    /\ \/ /\ pipe[s] # <<>>
          /\ reader' = [reader EXCEPT ![s].pc = "store", ![s].line = Head(pipe[s])]
          /\ pipe' = [pipe EXCEPT ![s] = Tail(@)]
       \/ /\ pipe[s] = <<>> /\ child.state = "exited"
          /\ reader' = ReaderEnds(s, "eof")
          /\ UNCHANGED pipe
    /\ UNCHANGED <<clusterVars, opts, pc, ret, exc, result, child, sink, events>>

\* Mutant: after a read error the reader goes on reading.
ReaderReadErrorGoesOn(s) ==
    /\ reader[s].pc = "read"
    /\ reader' = [reader EXCEPT ![s].pc = "check", ![s].ended = "error"]
    /\ IF IsEnabled(s)
       THEN LogLine(s, ErrorLine)
       ELSE UNCHANGED sink
    /\ UNCHANGED <<clusterVars, opts, pc, ret, exc, result, child, pipe, events>>

\* readline() raises: the error is logged as one line when the logger is
\* enabled, and the thread ends.
ReaderReadError(s) ==
    /\ reader[s].pc = "read"
    /\ reader' = ReaderEnds(s, "error")
    /\ IF IsEnabled(s)
       THEN LogLine(s, ErrorLine)
       ELSE UNCHANGED sink
    /\ UNCHANGED <<clusterVars, opts, pc, ret, exc, result, child, pipe, events>>

\* Mutant: the line read is logged but not kept.
ReaderStoreDrops(s) ==
    /\ reader[s].pc = "store"
    /\ reader' = [reader EXCEPT ![s].pc = "check", ![s].line = None]
    /\ IF IsEnabled(s)
       THEN LogLine(s, reader[s].line)
       ELSE UNCHANGED sink
    /\ UNCHANGED <<clusterVars, opts, pc, ret, exc, result, child, pipe, events>>

\* with self._lock: self.lines.append(line), then
\* if self.logger.is_enabled(): self.logger.log_line(line)
ReaderStore(s) ==
    /\ reader[s].pc = "store"
    /\ reader' = [reader EXCEPT ![s].pc = "check", ![s].line = None,
                                ![s].lines = Append(@, reader[s].line)]
    /\ IF IsEnabled(s)
       THEN LogLine(s, reader[s].line)
       ELSE UNCHANGED sink
    /\ UNCHANGED <<clusterVars, opts, pc, ret, exc, result, child, pipe, events>>

----------------------------------------------------------------------------
(* The child process *)

\* The child writes its next line to a stream that is piped.
ChildWrite(s) ==
    /\ child.state = "running"
    /\ child.written < MaxLines
    /\ opts.logger[s] # "none"
    /\ pipe' = [pipe EXCEPT ![s] = Append(@, LineAt(child.written + 1))]
    /\ child' = [child EXCEPT !.written = @ + 1,
                              !.out[s] = Append(@, LineAt(child.written + 1))]
    /\ UNCHANGED <<clusterVars, opts, pc, ret, exc, result, reader, sink, events>>

\* The child exits: by itself, on terminate or on kill.
ChildExit ==
    /\ child.state = "running"
    /\ \E rc \in {0, 1} : child' = [child EXCEPT !.state = "exited", !.rc = rc]
    /\ UNCHANGED <<clusterVars, opts, pc, ret, exc, result, pipe, reader, sink, events>>

----------------------------------------------------------------------------
(* LoggingStreamHandler.stop_streaming / StreamReader.stop *)

StopPc(s) == IF s = "stdout" THEN "stop_stdout" ELSE "stop_stderr"

JoinPc(s) == IF s = "stdout" THEN "join_stdout" ELSE "join_stderr"

\* Where the controlling thread goes once the reader of stream s is stopped.
AfterStop(s) == IF s = "stdout" THEN StopPc("stderr") ELSE ret

\* reader.stop(): self.running = False, then join the thread if it is alive.
StopSignal(s) ==
    /\ pc = StopPc(s)
    /\ IF HasReader(s)
       THEN /\ reader' = [reader EXCEPT ![s].running = FALSE]
            /\ pc' = IF ThreadAlive(s) THEN JoinPc(s) ELSE AfterStop(s)
            /\ Event(<<"stop", s>>)
       ELSE /\ pc' = AfterStop(s)
            /\ UNCHANGED <<reader, events>>
    /\ UNCHANGED <<clusterVars, opts, ret, exc, result, child, pipe, sink>>

\* thread.join(timeout=1.0): returns when the thread has ended, or when the
\* second has passed with the thread still alive.
StopJoin(s) ==
    /\ pc = JoinPc(s)
    /\ pc' = AfterStop(s)
    /\ Event(<<IF ThreadAlive(s) THEN "join timed out" ELSE "joined", s,
               Len(reader[s].lines), Len(sink[s])>>)
    /\ UNCHANGED <<clusterVars, opts, ret, exc, result, child, pipe, reader, sink>>

----------------------------------------------------------------------------
(* StreamingSubprocess.run, the controlling thread *)

\* Mutant: an exception leaves run() without passing the finally clause.
UnwindSkipsFinally(e) == [pc |-> "done", exc |-> e]

\* An exception leaves the try block: the finally clause runs next.
Unwind(e) == [pc |-> "finally", exc |-> e]

Raise(e) ==
    /\ pc' = Unwind(e).pc
    /\ exc' = Unwind(e).exc

\* process.poll() is None
PollIsNone(c) == c.state = "running"

\* subprocess.Popen(...) starts the child.
Spawn ==
    /\ pc = "spawn"
    /\ child' = [child EXCEPT !.state = "running"]
    /\ pc' = "start_streaming"
    /\ Event(<<"spawn">>)
    /\ UNCHANGED <<clusterVars, opts, ret, exc, result, pipe, reader, sink>>

\* subprocess.Popen(...) raises: run() raises before its try block.
SpawnFails ==
    /\ pc = "spawn"
    /\ pc' = "done"
    /\ exc' = "FileNotFoundError"
    /\ UNCHANGED <<clusterVars, opts, ret, result, child, pipe, reader, sink, events>>

\* LoggingStreamHandler.start_streaming: the readers it creates and starts.
StartedReaders ==
    [s \in StreamSet |->
        IF opts.logger[s] # "none"
        THEN [pc |-> "check", running |-> TRUE, line |-> None,
              lines |-> <<>>, ended |-> "no"]
        ELSE NoReader]

\* stream_handler.start_streaming(process): a reader and its thread for every
\* stream that is piped and has a logger.
StartStreaming ==
    /\ pc = "start_streaming"
    /\ reader' = StartedReaders
    /\ \E input_data \in BOOLEAN : pc' = IF input_data THEN "stdin" ELSE "wait"
    /\ UNCHANGED <<clusterVars, opts, ret, exc, result, child, pipe, sink, events>>

\* process.stdin.write(input_data); process.stdin.close()
WriteStdin ==
    /\ pc = "stdin"
    /\ pc' = "wait"
    /\ Event(<<"stdin written">>)
    /\ UNCHANGED <<clusterVars, opts, ret, exc, result, child, pipe, reader, sink>>

\* The write to stdin raises (the child has closed its end).
WriteStdinFails ==
    /\ pc = "stdin"
    /\ Raise("BrokenPipeError")
    /\ Event(<<"stdin write failed">>)
    /\ UNCHANGED <<clusterVars, opts, ret, result, child, pipe, reader, sink>>

\* return_code = process.wait(timeout=timeout), the child has exited.
WaitReturns ==
    /\ pc = "wait"
    /\ child.state = "exited"
    /\ pc' = "drain"
    /\ UNCHANGED <<clusterVars, opts, ret, exc, result, child, pipe, reader, sink, events>>

\* process.wait(timeout=timeout) raises TimeoutExpired: a timeout was given
\* and the child is still running when it has passed.
WaitTimesOut ==
    /\ pc = "wait"
    /\ child.state = "running"
    /\ pc' = "timeout_kill"
    /\ Event(<<"wait timed out">>)
    /\ UNCHANGED <<clusterVars, opts, ret, exc, result, child, pipe, reader, sink>>

\* except TimeoutExpired: process.kill(); stream_handler.stop_streaming()
TimeoutKill ==
    /\ pc = "timeout_kill"
    /\ pc' = StopPc("stdout")
    /\ ret' = "timeout_raise"
    /\ Event(<<"kill">>)
    /\ UNCHANGED <<clusterVars, opts, exc, result, child, pipe, reader, sink>>

\* Mutant: the timeout is swallowed and run() goes on as after a normal exit.
TimeoutRaiseSwallowed ==
    /\ pc = "timeout_raise"
    /\ pc' = "drain"
    /\ UNCHANGED <<clusterVars, opts, ret, exc, result, child, pipe, reader, sink, events>>

\* ... raise
TimeoutRaise ==
    /\ pc = "timeout_raise"
    /\ Raise("TimeoutExpired")
    /\ UNCHANGED <<clusterVars, opts, ret, result, child, pipe, reader, sink, events>>

\* wait_for_completion(timeout), called by run() with timeout=5.0: the loop
\* is left when no reader is running, or when "timeout and elapsed > timeout"
\* holds, which a timeout of None or 0 never lets hold.
Drain ==
    /\ pc = "drain"
    /\ LET done    == \A s \in StreamSet : ~reader[s].running
           bounded == opts.drain # <<>> /\ opts.drain[1] # 0
       IN  /\ done \/ bounded
           /\ Event(<<IF done THEN "drained" ELSE "drain timed out">>)
    /\ pc' = "collect"
    /\ UNCHANGED <<clusterVars, opts, ret, exc, result, child, pipe, reader, sink>>

\* get_captured_output() and the CompletedProcess built from it.
Collect ==
    /\ pc = "collect"
    /\ result' = <<[returncode |-> child.rc,
                    stdout |-> Join(reader["stdout"].lines),
                    stderr |-> Join(reader["stderr"].lines)]>>
    /\ pc' = "check"
    /\ UNCHANGED <<clusterVars, opts, ret, exc, child, pipe, reader, sink, events>>

\* Mutant: the exit code is not checked.
CheckIgnoresStrict ==
    /\ pc = "check"
    /\ \E check \in BOOLEAN :
          /\ pc' = "finally" /\ UNCHANGED exc
          /\ Event(<<"check", check>>)
    /\ UNCHANGED <<clusterVars, opts, ret, result, child, pipe, reader, sink>>

\* if check and return_code != 0:
\*     raise CalledProcessError(return_code, cmd, stdout_output, stderr_output)
\* return result
Check ==
    /\ pc = "check"
    /\ \E check \in BOOLEAN :
          IF check /\ result[1].returncode # 0
          THEN /\ Raise("CalledProcessError")
               /\ events' = events \o
                     << <<"check", check>>,
                        <<"CalledProcessError", result[1].returncode,
                          result[1].stdout, result[1].stderr>> >>
          ELSE /\ pc' = "finally" /\ UNCHANGED exc
               /\ Event(<<"check", check>>)
    /\ UNCHANGED <<clusterVars, opts, ret, result, child, pipe, reader, sink>>

\* finally: stream_handler.stop_streaming() ...
Finally ==
    /\ pc = "finally"
    /\ pc' = StopPc("stdout")
    /\ ret' = "poll"
    /\ Event(<<"finally">>)
    /\ UNCHANGED <<clusterVars, opts, exc, result, child, pipe, reader, sink>>

\* ... if process.poll() is None: process.terminate()
Poll ==
    /\ pc = "poll"
    /\ IF PollIsNone(child)
       THEN /\ pc' = "grace"
            /\ events' = events \o << <<"poll", child.state>>, <<"terminate">> >>
       ELSE /\ pc' = "done"
            /\ Event(<<"poll", child.state>>)
    /\ UNCHANGED <<clusterVars, opts, ret, exc, result, child, pipe, reader, sink>>

\* ... process.wait(timeout=5.0) returns: the child has exited.
GraceReturns ==
    /\ pc = "grace"
    /\ child.state = "exited"
    /\ pc' = "done"
    /\ UNCHANGED <<clusterVars, opts, ret, exc, result, child, pipe, reader, sink, events>>

\* ... except TimeoutExpired: process.kill()
GraceTimesOut ==
    /\ pc = "grace"
    /\ child.state = "running"
    /\ pc' = "grace_kill"
    /\ Event(<<"grace timed out">>)
    /\ UNCHANGED <<clusterVars, opts, ret, exc, result, child, pipe, reader, sink>>

GraceKill ==
    /\ pc = "grace_kill"
    /\ pc' = "done"
    /\ Event(<<"kill">>)
    /\ UNCHANGED <<clusterVars, opts, ret, exc, result, child, pipe, reader, sink>>


\* The caller of the handler starts the child with its output piped.
HandlerSpawn ==
    /\ pc = "handler_spawn"
    /\ child' = [child EXCEPT !.state = "running"]
    /\ pc' = "handler_start"
    /\ UNCHANGED <<clusterVars, opts, ret, exc, result, pipe, reader, sink, events>>

\* handler.start_streaming(process), then handler.wait_for_completion(timeout)
HandlerStart ==
    /\ pc = "handler_start"
    /\ reader' = StartedReaders
    /\ pc' = "drain"
    /\ UNCHANGED <<clusterVars, opts, ret, exc, result, child, pipe, sink, events>>

----------------------------------------------------------------------------
(* Specifications *)

\* No run() call is in progress (the cluster manager's specification).
StreamOff ==
    /\ opts = [logger |-> [s \in StreamSet |-> "none"], drain |-> <<DrainTimeout>>]
    /\ pc = "off"
    /\ ret = "poll"
    /\ exc = None
    /\ result = <<>>
    /\ child = [state |-> "none", rc |-> 0, written |-> 0,
                out |-> [s \in StreamSet |-> <<>>]]
    /\ pipe = [s \in StreamSet |-> <<>>]
    /\ reader = [s \in StreamSet |-> NoReader]
    /\ sink = [s \in StreamSet |-> <<>>]
    /\ events = <<>>

\* run() is called with some loggers and arguments.
StreamStart ==
    /\ opts \in [logger : [StreamSet -> LoggerKinds], drain : {<<DrainTimeout>>}]
    /\ pc = "spawn"
    /\ ret = "poll"
    /\ exc = None
    /\ result = <<>>
    /\ child = [state |-> "none", rc |-> 0, written |-> 0,
                out |-> [s \in StreamSet |-> <<>>]]
    /\ pipe = [s \in StreamSet |-> <<>>]
    /\ reader = [s \in StreamSet |-> NoReader]
    /\ sink = [s \in StreamSet |-> <<>>]
    /\ events = <<>>

\* No KindCluster is in use (the streaming specification).
ClusterOff ==
    /\ self = [keep_cluster |-> FALSE, timeout |-> 0,
               config_path |-> None, inline |-> FALSE,
               created |-> FALSE, verified |-> FALSE, kubeconfig_path |-> None]
    /\ files = {}
    /\ cluster = FALSE
    /\ call = NoCall
    /\ scope = FALSE

Init == ClusterInit /\ StreamOff

Spec == Init /\ [][Next]_vars

\* One object with the defaults, no run() in progress; the kind tool's
\* output is drawn by ExistsListing.
ListingInit == ClusterOff /\ StreamOff

ListingNext == ExistsListing \/ Return

ListingSpec == ListingInit /\ [][ListingNext]_vars

StreamInit == ClusterOff /\ StreamStart

ControllerStep ==
    \/ Spawn \/ SpawnFails \/ StartStreaming \/ WriteStdin \/ WriteStdinFails
    \/ WaitReturns \/ WaitTimesOut \/ TimeoutKill \/ TimeoutRaise
    \/ Drain \/ Collect \/ Check
    \/ Finally \/ Poll \/ GraceReturns \/ GraceTimesOut \/ GraceKill
    \/ \E s \in StreamSet : StopSignal(s) \/ StopJoin(s)

ReaderStep ==
    \E s \in StreamSet :
        \/ ReaderCheck(s) \/ ReaderRead(s) \/ ReaderReadError(s) \/ ReaderStore(s)

ChildStep ==
    \/ ChildExit
    \/ \E s \in StreamSet : ChildWrite(s)

StreamNext == ControllerStep \/ ReaderStep \/ ChildStep

StreamSpec == StreamInit /\ [][StreamNext]_vars

\* A caller that uses LoggingStreamHandler by itself: it starts a child,
\* starts the streaming and waits for completion with a timeout of its choice.
HandlerInit ==
    /\ ClusterOff
    /\ opts \in [logger : [StreamSet -> LoggerKinds], drain : DrainTimeouts]
    /\ pc = "handler_spawn"
    /\ ret = "poll"
    /\ exc = None
    /\ result = <<>>
    /\ child = [state |-> "none", rc |-> 0, written |-> 0,
                out |-> [s \in StreamSet |-> <<>>]]
    /\ pipe = [s \in StreamSet |-> <<>>]
    /\ reader = [s \in StreamSet |-> NoReader]
    /\ sink = [s \in StreamSet |-> <<>>]
    /\ events = <<>>

HandlerNext == HandlerSpawn \/ HandlerStart \/ Drain \/ ReaderStep \/ ChildStep

\* The calling thread and the reader threads keep running: a step one of
\* them can take it takes.  Nothing makes the child exit, write, or a
\* blocked read return or fail.
HandlerSpec ==
    /\ HandlerInit /\ [][HandlerNext]_vars
    /\ WF_vars(HandlerSpawn) /\ WF_vars(HandlerStart) /\ WF_vars(Drain)
    /\ \A s \in StreamSet :
          WF_vars(ReaderCheck(s) \/ ReaderRead(s) \/ ReaderStore(s))

----------------------------------------------------------------------------
(* Properties of the cluster lifecycle manager *)

Pre == call.pre
In == call.inputs
Post == [self |-> self, files |-> files, cluster |-> cluster]

Ran(ev) == Count(call.trace, ev)

\* The last call was create() and got past the prerequisite and existence
\* checks, so it reached the creation command.
CreateReachedTry ==
    /\ call.op = "create"
    /\ ~Pre.self.created
    /\ In.kind = "ok" /\ In.docker = "ok"
    /\ ~(In.list = "ok" /\ Pre.cluster)

\* Time spent before probe j starts: a sleep after every earlier probe, plus
\* the per-probe timeout for each earlier probe that timed out.
ElapsedBefore(probes, j) ==
    (j - 1) * SleepInterval
    + ProbeTimeout * Cardinality({i \in 1..(j - 1) : probes[i] = "timeout"})

\* Some probe succeeds, none before it does, and it starts before the deadline.
ProbeSucceedsInTime(probes, t) ==
    \E j \in DOMAIN probes :
        /\ probes[j] = "ok"
        /\ \A i \in 1..(j - 1) : probes[i] # "ok"
        /\ ElapsedBefore(probes, j) < t

\* A step of create() after the existence check failed.
CreateStepFailed ==
    \/ In.create # "ok"
    \/ In.export # "ok"
    \/ ~ProbeSucceedsInTime(In.probes, Pre.self.timeout)

\* The failure create() met first, as class and message.
OriginalFailure ==
    IF In.create # "ok"
    THEN [cls |-> CommandError(In.create).cls, msg |-> ""]
    ELSE IF In.export = "nonzero"
    THEN [cls |-> "KindClusterCreationError", msg |-> "Failed to export kubeconfig"]
    ELSE IF In.export # "ok"
    THEN [cls |-> CommandError(In.export).cls, msg |-> ""]
    ELSE [cls |-> "KindClusterError", msg |-> "not ready"]

\* C2: when the creation command, the credential export or the readiness
\* wait of create() fails, delete() is attempted exactly once, an error it
\* raises is swallowed, and create() raises CreationFailed for the original
\* failure.
C2_RollbackOnceThenCreationFailed ==
    (CreateReachedTry /\ CreateStepFailed) =>
        /\ Ran("delete()") = 1
        /\ ErrorKind(call.err) = "CreationFailed"
        /\ call.err.cause = OriginalFailure

C2_Witness ==
    /\ CreateReachedTry /\ CreateStepFailed
    /\ In.export = "timeout"
    /\ Ran("cleanup error ignored") = 1
    /\ ErrorKind(call.err) = "CreationFailed"

\* The last call was create() and a prerequisite check reported the tool
\* (kind, or docker after kind was found) as unavailable.
PrerequisiteMissing ==
    /\ call.op = "create"
    /\ ~Pre.self.created
    /\ \/ In.kind \in {"nonzero", "notfound"}
       \/ In.kind = "ok" /\ In.docker \in {"nonzero", "notfound"}

\* C3: when a prerequisite check fails, create() raises PrerequisiteMissing,
\* runs neither the existence check nor the creation command nor any later
\* step, and Created stays unset.
C3_PrerequisiteMissingStopsCreate ==
    PrerequisiteMissing =>
        /\ ErrorKind(call.err) = "PrerequisiteMissing"
        /\ Ran("kind create cluster") = 0
        /\ \A i \in 1..Len(call.trace) : call.trace[i] \in {"kind version", "docker version"}
        /\ ~self.created
        /\ Post = Pre

C3_Witness ==
    /\ PrerequisiteMissing
    /\ In.kind = "ok" /\ In.docker = "notfound"
    /\ call.err.msg = "Docker not available or not running"

\* The last call was create() and its existence check found the cluster.
CreateFoundExisting ==
    /\ call.op = "create"
    /\ ~Pre.self.created
    /\ In.kind = "ok" /\ In.docker = "ok"
    /\ In.list = "ok" /\ Pre.cluster

\* C4: when exists() reports a cluster of this name, create() raises
\* AlreadyExists, the creation command is not run, and the existing cluster
\* is not adopted: Created stays unset and no field changes.
C4_AlreadyExistsNoCreation ==
    CreateFoundExisting =>
        /\ ErrorKind(call.err) = "AlreadyExists"
        /\ Ran("kind create cluster") = 0
        /\ ~self.created
        /\ Post = Pre

C4_Witness ==
    /\ CreateFoundExisting
    /\ ErrorKind(call.err) = "AlreadyExists"
    /\ cluster

\* C5: create() on an object whose Created flag is set returns without
\* raising, runs no external command and changes no field.
C5_CreateWhenCreatedIsNoOp ==
    (call.op = "create" /\ Pre.self.created) =>
        /\ call.err = NoError
        /\ call.trace = <<>>
        /\ self = Pre.self
        /\ Post = Pre

C5_Witness ==
    /\ call.op = "create" /\ Pre.self.created
    /\ call.err = NoError
    /\ self.created /\ self.verified /\ self.kubeconfig_path # None

\* The last call was delete() with keep_cluster false and an existence check
\* that found the cluster, so the deletion command was due.
DeleteDue ==
    /\ call.op = "delete"
    /\ ~Pre.self.keep_cluster
    /\ In.list = "ok" /\ Pre.cluster

KubeconfigPresent(s) ==
    s.self.kubeconfig_path # None /\ s.self.kubeconfig_path \in s.files

\* C6: when the deletion command fails, delete() raises DeletionFailed and
\* still attempts to remove the kubeconfig file if one is present.
C6_DeleteFailureRaisesDeletionFailed ==
    (DeleteDue /\ In.del # "ok") =>
        /\ ErrorKind(call.err) = "DeletionFailed"
        /\ KubeconfigPresent(Pre) => Ran("unlink kubeconfig") = 1

C8_DeleteAbsentClusterIsNoOp ==
    (call.op = "delete" /\ ~Pre.cluster) =>
        /\ call.err = NoError
        /\ Ran("kind delete cluster") = 0

C8_Witness ==
    /\ call.op = "delete" /\ ~Pre.cluster
    /\ ~Pre.self.keep_cluster /\ ~Pre.self.created
    /\ call.trace = <<"kind get clusters">>
    /\ call.err = NoError

\* C9: with keep_cluster set, delete() returns without raising, runs neither
\* the existence check nor the deletion command, and leaves the object, the
\* kubeconfig file and the cluster as they were.
C9_KeepClusterDeleteIsNoOp ==
    (call.op = "delete" /\ Pre.self.keep_cluster) =>
        /\ call.err = NoError
        /\ call.trace = <<>>
        /\ Post = Pre

C9_Witness ==
    /\ call.op = "delete" /\ Pre.self.keep_cluster
    /\ Pre.self.created /\ Pre.self.verified /\ KubeconfigPresent(Pre) /\ Pre.cluster
    /\ Post = Pre

\* C10: every delete() with keep_cluster false attempts to remove the
\* kubeconfig file when one is present, whichever path it takes.
C10_DeleteAlwaysRemovesKubeconfig ==
    (call.op = "delete" /\ ~Pre.self.keep_cluster /\ KubeconfigPresent(Pre)) =>
        Ran("unlink kubeconfig") = 1

\* The last call was create() and it ran the credential export.
CreateRanExport == CreateReachedTry /\ In.create = "ok"

\* C11: kubeconfig_path is set only once a credential export has succeeded:
\* after a create() whose export failed, on an object that had no
\* kubeconfig_path before, kubeconfig_path is still absent.
C11_KubeconfigPathOnlyAfterExport ==
    (CreateRanExport /\ In.export # "ok" /\ Pre.self.kubeconfig_path = None) =>
        self.kubeconfig_path = None

\* C12: in every reachable state, Verified implies Created.
C12_VerifiedImpliesCreated == self.verified => self.created

\* The last call was create() and it ran the existence check.
CreateRanExists ==
    /\ call.op = "create"
    /\ ~Pre.self.created
    /\ In.kind = "ok" /\ In.docker = "ok"

\* C13: exists() never raises and returns False for every failure of the
\* listing command; a failed listing aborts neither delete(), which returns
\* normally, nor create(), which goes on to the creation command.
C13_ExistsNeverRaises ==
    /\ call.op = "exists" =>
          /\ call.err = NoError
          /\ In.list # "ok" => call.value = <<FALSE>>
          /\ Post = Pre
    /\ (call.op = "delete" /\ ~Pre.self.keep_cluster /\ In.list # "ok") =>
          /\ call.err = NoError
          /\ call.trace = <<"kind get clusters">>
    /\ (CreateRanExists /\ In.list # "ok") =>
          /\ Ran("kind create cluster") = 1
          /\ ErrorKind(call.err) \in {"None", "CreationFailed"}

C13_Witness ==
    /\ call.op = "exists"
    /\ In.list = "timeout" /\ Pre.cluster
    /\ call.value = <<FALSE>>
    /\ call.err = NoError

\* Some line of text is name, padded with blanks only.
ExactLine(name, text) ==
    \E i \in 1..Len(text) :
        LET j == i + Len(name) - 1 IN
        /\ j <= Len(text)
        /\ SubSeq(text, i, j) = name
        /\ \A k \in 1..(i - 1) :
              (\A l \in k..(i - 1) : text[l] # "\n") => text[k] = " "
        /\ \A k \in (j + 1)..Len(text) :
              (\A l \in (j + 1)..k : text[l] # "\n") => text[k] = " "

\* C14: for every listing the command returns with exit 0, exists() is True
\* exactly when some line of it, trimmed, equals the cluster name; a line
\* that contains the name or is contained in it does not count, and an
\* empty or blank listing gives False.
C14_ExistsMatchesExactLine ==
    (call.op = "exists" /\ In.list = "ok") =>
        /\ call.value = <<ExactLine(ClusterName, In.stdout)>>
        /\ (\A i \in DOMAIN In.stdout : IsSpace(In.stdout[i])) => call.value = <<FALSE>>

C14_Witness ==
    /\ call.op = "exists" /\ In.list = "ok"
    /\ In.stdout = <<"a", "\n", " ", "a", "b">>
    /\ call.value = <<TRUE>>

\* The deadline the last wait_for_ready() call was given: its argument, or
\* the instance timeout when it was called without one.
WaitDeadline == IF call.arg = NoArg THEN Pre.self.timeout ELSE call.arg[1]

\* The last call was wait_for_ready() with credentials present and a deadline.
WaitCalled ==
    /\ call.op = "wait_for_ready"
    /\ call.arg # <<0>>
    /\ Pre.self.kubeconfig_path # None

\* k probes failed, the next one succeeded and started before the deadline.
FailedThenReady(k) ==
    /\ k + 1 \in DOMAIN In.probes
    /\ \A i \in 1..k : In.probes[i] # "ok"
    /\ In.probes[k + 1] = "ok"
    /\ ElapsedBefore(In.probes, k + 1) < WaitDeadline

\* C15: with credentials present, after k failed probes and a successful one
\* within the deadline, wait_for_ready has run exactly k+1 probes with a
\* sleep between consecutive probes, has set Verified and returns normally.
C15_StopsAtFirstSuccessfulProbe ==
    \A k \in 0..ProbeBudget(MaxTimeout) :
        (WaitCalled /\ FailedThenReady(k)) =>
            /\ call.err = NoError
            /\ self.verified
            /\ Ran("kubectl get nodes") = k + 1
            /\ Ran("sleep") = k
            /\ call.trace = [i \in 1..(2 * k + 1) |->
                                IF i % 2 = 1 THEN "kubectl get nodes" ELSE "sleep"]

C15_Witness ==
    /\ WaitCalled /\ FailedThenReady(1)
    /\ ~Pre.self.verified /\ self.verified
    /\ Ran("kubectl get nodes") = 2

\* C16: when every probe wait_for_ready runs before its deadline fails, it
\* raises NotReady and leaves the Verified flag as it was.
C16_AllProbesFailNotReady ==
    (WaitCalled /\ ~ProbeSucceedsInTime(In.probes, WaitDeadline)) =>
        /\ ErrorKind(call.err) = "NotReady"
        /\ self.verified = Pre.self.verified
        /\ self = Pre.self

C16_Witness ==
    /\ WaitCalled /\ ~ProbeSucceedsInTime(In.probes, WaitDeadline)
    /\ In.probes = <<"nonzero", "timeout">>
    /\ Ran("kubectl get nodes") = 2
    /\ ErrorKind(call.err) = "NotReady"
    /\ ~self.verified

\* C17: is_ready() never raises; it returns True iff a probe succeeds within
\* the fixed deadline of wait_for_ready(timeout=10), False otherwise.
C17_IsReadyNeverRaises ==
    call.op = "is_ready" =>
        /\ call.err = NoError
        /\ call.value = << /\ Pre.self.kubeconfig_path # None
                           /\ ProbeSucceedsInTime(In.probes, IsReadyTimeout) >>
        /\ call.value = <<TRUE>> => self.verified

C17_Witness ==
    /\ call.op = "is_ready"
    /\ Pre.self.kubeconfig_path # None
    /\ \A i \in DOMAIN In.probes : In.probes[i] = "nonzero"
    /\ Ran("kubectl get nodes") = 5
    /\ call.value = <<FALSE>>
    /\ call.err = NoError

\* C18: get_nodes() without a kubeconfig_path raises CredentialsMissing and
\* runs no command; get_nodes() never changes the object.
C18_GetNodesNeedsCredentials ==
    call.op = "get_nodes" =>
        /\ Pre.self.kubeconfig_path = None =>
              /\ ErrorKind(call.err) = "CredentialsMissing"
              /\ call.trace = <<>>
        /\ self = Pre.self

C18_Witness ==
    /\ call.op = "get_nodes"
    /\ Pre.self.kubeconfig_path = None
    /\ ErrorKind(call.err) = "CredentialsMissing"

\* C19: with credentials present, a timeout of the node listing raises
\* NodeQueryTimedOut, every other failure raises NodeQueryFailed carrying
\* the underlying failure, and success returns the node names.
C19_GetNodesMapsEveryFailure ==
    (call.op = "get_nodes" /\ Pre.self.kubeconfig_path # None) =>
        /\ Ran("kubectl get nodes -o name") = 1
        /\ In.nodes = "ok" => call.err = NoError /\ call.value = <<NodeNames>>
        /\ In.nodes = "timeout" => ErrorKind(call.err) = "NodeQueryTimedOut"
        /\ In.nodes = "nonzero" =>
              /\ ErrorKind(call.err) = "NodeQueryFailed"
              /\ call.err.cause = [cls |-> "KindClusterError", msg |-> "Failed to get nodes"]
        /\ In.nodes = "notfound" =>
              /\ ErrorKind(call.err) = "NodeQueryFailed"
              /\ call.err.cause = [cls |-> "FileNotFoundError", msg |-> ""]

C19_Witness ==
    /\ call.op = "get_nodes" /\ Pre.self.kubeconfig_path # None
    /\ In.nodes = "notfound"
    /\ ErrorKind(call.err) = "NodeQueryFailed"

\* C20: entering the scope calls create() once and the body runs iff it
\* returned; leaving the scope calls delete() exactly once, swallows what it
\* raises, and the caller sees the body's own exception, if any.
C20_ScopeReleasesOnEveryExit ==
    /\ call.op = "__enter__" =>
          /\ Ran("create()") = 1
          /\ Ran("delete()") = IF Raised(call) /\ Ran("kind create cluster") = 1
                               THEN 1 ELSE 0
          /\ scope = ~Raised(call)
    /\ call.op = "__exit__" =>
          /\ Ran("delete()") = 1
          /\ ~Pre.self.keep_cluster => Ran("kind get clusters") = 1
          /\ call.err = In.body
          /\ ~scope

C20_Witness ==
    /\ call.op = "__exit__"
    /\ In.body = Error("ValueError", "body")
    /\ In.del = "timeout"
    /\ Ran("cleanup error logged") = 1
    /\ call.err = In.body

\* The last call was create() with inline settings and no explicit
\* configuration file, and it got past the existence check.
CreateSynthesizedConfig ==
    /\ CreateReachedTry
    /\ Pre.self.config_path = None /\ Pre.self.inline

C22_NegativeTimeoutRejected == self.timeout >= 0

\* C23: whatever create(), delete(), wait_for_ready() or get_nodes() raises
\* is one of the taxonomy kinds, never a raw command failure.
C23_NoRawCommandFailure ==
    call.op \in {"create", "delete", "wait_for_ready", "get_nodes"} =>
        ErrorKind(call.err) # "Raw"

\* C24: when create() fails after the creation command has succeeded
\* (keep_cluster not set), delete() is attempted, and unless that delete()
\* raised, no cluster of this name is left and Created and Verified are clear.
C24_RollbackLeavesNoCluster ==
    (CreateRanExport /\ CreateStepFailed /\ ~Pre.self.keep_cluster) =>
        /\ Ran("delete()") = 1
        /\ Ran("cleanup error ignored") = 0 =>
              /\ ~cluster
              /\ ~self.created /\ ~self.verified

\* C32: in a create() call the credential export is attempted only after
\* the creation command has succeeded, the Created flag is set by the call
\* only when the export has succeeded, and a readiness probe is run only
\* after that.
C32_CreateStepsOrdered ==
    CreateReachedTry =>
        /\ Ran("kind export kubeconfig") > 0 => In.create = "ok"
        /\ self.created => In.export = "ok"
        /\ Ran("kubectl get nodes") > 0 => (In.export = "ok" /\ In.create = "ok")

\* The last call was wait_for_ready(), get_nodes() or delete() and it raised.
OperationRaised ==
    /\ call.op \in {"wait_for_ready", "get_nodes", "delete"}
    /\ Raised(call)

\* C34: when wait_for_ready(), get_nodes() or delete() raises, the Created
\* flag, the Verified flag and the kubeconfig path are as they were before
\* the call.
C34_FailureLeavesStateUnchanged ==
    OperationRaised =>
        /\ self.created = Pre.self.created
        /\ self.verified = Pre.self.verified
        /\ self.kubeconfig_path = Pre.self.kubeconfig_path

C34_Witness ==
    /\ call.op = "delete" /\ Raised(call)
    /\ ErrorKind(call.err) = "DeletionFailed"
    /\ Pre.self.created /\ Pre.self.verified
    /\ self.created /\ self.verified /\ self.kubeconfig_path = KubeconfigFile

\* The last call was create() and it raised PrerequisiteMissing or
\* AlreadyExists.
CreateRefused ==
    /\ call.op = "create"
    /\ ErrorKind(call.err) \in {"PrerequisiteMissing", "AlreadyExists"}

\* C35: a create() that raises PrerequisiteMissing or AlreadyExists calls
\* delete() zero times and runs the deletion command zero times: the
\* cluster of this name is there afterwards iff it was there before, and
\* the object is unchanged.
C35_RefusedCreateDeletesNothing ==
    CreateRefused =>
        /\ Ran("delete()") = 0
        /\ Ran("kind delete cluster") = 0
        /\ Ran("cleanup error ignored") = 0
        /\ cluster = Pre.cluster
        /\ self = Pre.self

C35_Witness ==
    /\ CreateRefused
    /\ ErrorKind(call.err) = "AlreadyExists"
    /\ ~Pre.self.keep_cluster
    /\ Pre.cluster /\ cluster

\* C36: whenever create() returns without raising, the object is Created
\* and Verified and its kubeconfig path is set.
C36_CreateReturnMeansVerified ==
    (call.op = "create" /\ ~Raised(call)) =>
        /\ self.created
        /\ self.verified
        /\ self.kubeconfig_path # None

\* C37: whenever delete() returns without raising on an object whose
\* keep_cluster is not set, no cluster of this name exists.
C37_DeleteReturnMeansGone ==
    (call.op = "delete" /\ ~Raised(call) /\ ~Pre.self.keep_cluster) => ~cluster

\* C38: the value is_ready() returns is the value of the Verified flag after
\* the call.
C38_IsReadyAgreesWithVerified ==
    call.op = "is_ready" => call.value = <<self.verified>>

\* C40: wait_for_ready(timeout = t) takes t as its deadline for every
\* t >= 0: with t = 0 it runs no probe and raises NotReady, and every probe
\* it runs starts before t has elapsed.
C40_ArgumentIsTheDeadline ==
    (call.op = "wait_for_ready" /\ call.arg # NoArg) =>
        /\ call.arg[1] = 0 =>
              /\ Ran("kubectl get nodes") = 0
              /\ ErrorKind(call.err) = "NotReady"
        /\ \A j \in 1..Ran("kubectl get nodes") :
              ElapsedBefore(In.probes, j) < call.arg[1]

----------------------------------------------------------------------------
(* Properties of the streaming subprocess runner *)

Happened(e) == \E i \in DOMAIN events : events[i] = e

\* run() has returned or raised after it had spawned the child.
RunLeft == pc = "done" /\ Happened(<<"spawn">>)

\* C1: once the child is spawned, every way of leaving run() has passed the
\* cleanup step: after the finally clause was entered every reader was told
\* to stop (its running flag is clear), a child found alive was sent
\* terminate, and a child still alive after the grace wait was sent kill.
C1_CleanupOnEveryExit ==
    RunLeft =>
        \E f \in DOMAIN events :
            /\ events[f] = <<"finally">>
            /\ \A s \in StreamSet :
                  HasReader(s) =>
                      /\ \E j \in DOMAIN events : j > f /\ events[j] = <<"stop", s>>
                      /\ ~reader[s].running
            /\ \E j \in DOMAIN events :
                  /\ j > f
                  /\ \/ events[j] = <<"poll", "exited">>
                     \/ /\ events[j] = <<"poll", "running">>
                        /\ j < Len(events) /\ events[j + 1] = <<"terminate">>
            /\ \A j \in DOMAIN events :
                  events[j] = <<"grace timed out">> =>
                      j < Len(events) /\ events[j + 1] = <<"kill">>
            /\ child.state = "running" =>
                  \E j \in DOMAIN events : j > f /\ events[j] = <<"kill">>

C1_Witness ==
    /\ RunLeft
    /\ exc = "BrokenPipeError"
    /\ HasReader("stdout") /\ HasReader("stderr")
    /\ Happened(<<"grace timed out">>) /\ Happened(<<"kill">>)
    /\ child.state = "running"

\* The wait of `timeout` expired with the child still running.
TimedOut == Happened(<<"wait timed out">>)

\* run() is leaving: the finally clause is about to run or has been entered.
Leaving == pc = "finally" \/ Happened(<<"finally">>)

\* The bounded wait for the readers has ended.
DrainEnded == Happened(<<"drained">>) \/ Happened(<<"drain timed out">>)

\* C25: when the wait of `timeout` expires with the child still running,
\* run() kills the child at once, then stops every reader, then raises
\* TimeoutExpired; on this path the drain is never waited for, the captured
\* output is never collected, the exit code is never checked and no result
\* is built.
C25_TimeoutKillsStopsAndRaises ==
    TimedOut =>
        /\ result = <<>>
        /\ ~DrainEnded
        /\ \A j \in DOMAIN events : events[j][1] \notin {"check", "CalledProcessError"}
        /\ exc = IF Leaving THEN "TimeoutExpired" ELSE None
        /\ \E w \in DOMAIN events :
              /\ events[w] = <<"wait timed out">>
              /\ pc # "timeout_kill" => (w < Len(events) /\ events[w + 1] = <<"kill">>)
              /\ Leaving =>
                    \A s \in StreamSet :
                        HasReader(s) =>
                            \E j \in DOMAIN events :
                                /\ j > w + 1
                                /\ events[j] = <<"stop", s>>
                                /\ \A f \in DOMAIN events :
                                      events[f] = <<"finally">> => j < f

C25_Witness ==
    /\ TimedOut
    /\ pc = "done"
    /\ exc = "TimeoutExpired"
    /\ HasReader("stdout") /\ HasReader("stderr")
    /\ reader["stdout"].lines # <<>>
    /\ result = <<>>

\* C26: after a normal exit of the child the result is built only after the
\* bounded wait for the readers has ended, and carries the child's exit
\* code; the exit code is checked only once the result is built; a strict
\* check of a non-zero exit code raises CalledProcessError with the exit
\* code and the result's stdout and stderr text, and any other check raises
\* nothing and leaves the result to be returned.
C26_NormalExitOrderAndCheck ==
    /\ DrainEnded => (child.state = "exited" /\ ~TimedOut)
    /\ result # <<>> =>
          /\ DrainEnded
          /\ result[1].returncode = child.rc
    /\ \A j \in DOMAIN events :
          events[j][1] = "check" =>
              /\ result # <<>>
              /\ IF events[j][2] /\ child.rc # 0
                 THEN /\ j < Len(events)
                      /\ events[j + 1] = <<"CalledProcessError", child.rc,
                                           result[1].stdout, result[1].stderr>>
                      /\ exc = "CalledProcessError"
                 ELSE /\ exc = None
                      /\ \A k \in DOMAIN events : events[k][1] # "CalledProcessError"

C26_Witness ==
    /\ pc = "done"
    /\ Happened(<<"drained">>)
    /\ Happened(<<"check", TRUE>>)
    /\ child.rc = 1
    /\ exc = "CalledProcessError"
    /\ result # <<>> /\ result[1].stdout # <<>>

\* C27: when run() has returned or raised, no reader thread it started is
\* alive and the child is not running.
C27_NothingOutlivesRun ==
    RunLeft =>
        /\ \A s \in StreamSet : ~ThreadAlive(s)
        /\ child.state # "running"

\* The line a reader has read and not yet appended.
Held(s) == IF reader[s].pc = "store" THEN <<reader[s].line>> ELSE <<>>

\* t is the concatenation of the first lines of the sequence, up to some line.
JoinOfPrefix(t, lines) ==
    \E n \in 0..Len(lines) : t = Join(SubSeq(lines, 1, n))

\* The lines the child wrote on s are the lines captured, then the line
\* held, then the lines not yet read.
Conserved(s) == child.out[s] = reader[s].lines \o Held(s) \o pipe[s]

\* C28: for each stream the captured lines are the lines read from it, in
\* the order read, none lost, repeated or moved; the captured output of a
\* result is the concatenation of the lines captured when it was collected,
\* and of all the lines captured when the readers had drained.
C28_CapturedLinesAreLinesRead ==
    \A s \in StreamSet :
        /\ Conserved(s)
        /\ result # <<>> =>
              /\ JoinOfPrefix(result[1][s], reader[s].lines)
              /\ Happened(<<"drained">>) => result[1][s] = Join(reader[s].lines)

C28_Witness ==
    /\ result # <<>>
    /\ Happened(<<"drained">>)
    /\ reader["stdout"].lines = <<LineAt(1), LineAt(2)>>
    /\ result[1].stdout = LineAt(1) \o LineAt(2)
    /\ pipe["stdout"] = <<>>

\* Some character of the line is not white space.
NotBlank(line) == \E i \in DOMAIN line : ~IsSpace(line[i])

\* m is the line without the white space at its end.
Trimmed(line, m) ==
    \E n \in 0..Len(line) :
        /\ m = SubSeq(line, 1, n)
        /\ \A i \in (n + 1)..Len(line) : IsSpace(line[i])
        /\ n > 0 => ~IsSpace(line[n])

\* A log entry that reports a line of output.
IsLineEntry(e) == e.message # ErrorLine

C30_DisabledLevelStillCaptures ==
    \A s \in StreamSet :
        opts.logger[s] = "off" =>
            /\ sink[s] = <<>>
            /\ HasReader(s) => reader[s].lines \o Held(s) \o pipe[s] = child.out[s]
            /\ (result # <<>> /\ Happened(<<"drained">>)) =>
                  result[1][s] \o Join(pipe[s]) = Join(child.out[s])

C30_Witness ==
    /\ opts.logger["stderr"] = "off"
    /\ reader["stderr"].lines = <<LineAt(1), LineAt(2)>>
    /\ result # <<>> /\ result[1].stderr = LineAt(1) \o LineAt(2)
    /\ sink["stderr"] = <<>>

\* The number of log entries of stream s that report a read error.
ErrorEntries(s) ==
    Cardinality({i \in DOMAIN sink[s] : sink[s][i].message = ErrorLine})

\* C31: a reader that met a read error has stopped (flag clear, thread
\* ended) and has recorded nothing since: the lines it had not read are
\* still unread; the error is in the log once when the logger is enabled, as
\* the last entry of the stream, and not at all otherwise; run() raises
\* nothing for it, and when it returns, the result holds the lines captured
\* before the error.  A reader that met the end of its stream has stopped
\* with every line written captured and no error entry.
C31_ReadErrorStopsReaderOnly ==
    \A s \in StreamSet :
        /\ reader[s].ended = "error" =>
              /\ ~reader[s].running /\ ~ThreadAlive(s)
              /\ reader[s].lines \o pipe[s] = child.out[s]
              /\ ErrorEntries(s) = IF opts.logger[s] = "on" THEN 1 ELSE 0
              /\ opts.logger[s] = "on" => sink[s][Len(sink[s])].message = ErrorLine
              /\ exc \in {None, "BrokenPipeError", "TimeoutExpired", "CalledProcessError"}
              /\ exc = "TimeoutExpired" => TimedOut
              /\ exc = "CalledProcessError" => Happened(<<"check", TRUE>>)
              /\ (pc = "done" /\ exc = None) =>
                    /\ result # <<>>
                    /\ JoinOfPrefix(result[1][s], reader[s].lines)
                    /\ Happened(<<"drained">>) => result[1][s] = Join(reader[s].lines)
        /\ reader[s].ended = "eof" =>
              /\ ~reader[s].running /\ ~ThreadAlive(s)
              /\ pipe[s] = <<>>
              /\ reader[s].lines = child.out[s]
        /\ reader[s].ended # "error" => ErrorEntries(s) = 0

C31_Witness ==
    /\ reader["stdout"].ended = "error"
    /\ opts.logger["stdout"] = "on"
    /\ reader["stdout"].lines = <<LineAt(1)>>
    /\ pipe["stdout"] = <<LineAt(2)>>
    /\ sink["stdout"] = <<[stream |-> "STDOUT", message |-> <<"a">>],
                          [stream |-> "STDOUT", message |-> ErrorLine]>>
    /\ pc = "done" /\ exc = None
    /\ Happened(<<"drained">>)
    /\ result # <<>> /\ result[1].stdout = LineAt(1)

\* C39: once stop() has returned from its join for a reader, that reader's
\* captured lines and log entries are as many as they were at that moment.
C39_NothingAppendedAfterStop ==
    \A j \in DOMAIN events :
        events[j][1] \in {"joined", "join timed out"} =>
            /\ Len(reader[events[j][2]].lines) = events[j][3]
            /\ Len(sink[events[j][2]]) = events[j][4]

\* C33: a call of wait_for_completion(timeout) with a number as timeout
\* returns, whatever the readers do.
C33_AwaitDrainedReturns ==
    (pc = "drain" /\ opts.drain # <<>>) ~> (pc = "collect")

====
